---- MODULE Spec2Model ----
(***************************************************************************)
(* Model of main.py: a command-line question-answering loop with a         *)
(* web_search tool.                                                        *)
(*                                                                         *)
(* Text is modelled as a sequence of pieces.  An input line is a sequence  *)
(* of one-character strings.  Printed text and the search report are       *)
(* sequences of pieces in which every line break is the piece "\n" and     *)
(* every value coming from outside (a title, a message) is one piece that  *)
(* holds no line break.                                                    *)
(***************************************************************************)
EXTENDS Integers, Sequences, FiniteSets

VARIABLES
    os_environ,   \* os.environ: a function from variable names to values
    dotenv_file,  \* the variables the .env file defines
    api_key,      \* the module global api_key
    model,        \* the local model of main(): None or the model handle
    pc,           \* where the process is
    line,         \* the last line input() returned, untrimmed
    question,     \* the local question of main()
    exc,          \* the exception raised in the current loop iteration, or NoExc
    stdout,       \* everything written to the console, one write per element
    gen_calls,    \* the number of generate_text calls made so far
    pending,      \* the arguments of the generate_text call in progress, or NoCall
    search        \* the web_search_execute call whose result the model runtime
                  \* has not taken yet, or NoSearch

vars == <<os_environ, dotenv_file, api_key, model, pc, line, question, exc,
          stdout, gen_calls, pending, search>>

\* ------------------------------------------------------------------ bounds

\* The loop is cut after this many prompts.
MaxTurns == 2

\* The search backend returns at most this many results.
MaxBackendLen == 2

\* ------------------------------------------------------- program constants

DefaultMaxResults == 5

MaxTokens == 1000

None == "None"

NoExc == [cls |-> "NoExc", msg |-> ""]

NoCall == [prompt |-> <<>>, tools |-> <<>>, max_tokens |-> 0]

NoLine == <<"<no line>">>

\* ------------------------------------------------------------------ text

\* str(n) for a natural number, digit by digit.
Digit(d) == <<"0", "1", "2", "3", "4", "5", "6", "7", "8", "9">>[d + 1]

RECURSIVE Str(_)
Str(n) == IF n < 10 THEN <<Digit(n)>> ELSE Str(n \div 10) \o <<Digit(n % 10)>>

\* str.isspace for one character.
IsSpace(c) == c \in {" ", "\t", "\n", "\r"}

RECURSIVE LStrip(_)
LStrip(s) == IF s # <<>> /\ IsSpace(Head(s)) THEN LStrip(Tail(s)) ELSE s

RECURSIVE RStrip(_)
RStrip(s) ==
    IF s # <<>> /\ IsSpace(s[Len(s)]) THEN RStrip(SubSeq(s, 1, Len(s) - 1)) ELSE s

StripLeftOnly(s) == LStrip(s)

\* str.strip(): surrounding whitespace removed.
Strip(s) == RStrip(LStrip(s))

\* str.lower() for one character.
LowerChar(c) ==
    CASE c = "E" -> "e" [] c = "X" -> "x" [] c = "I" -> "i" [] c = "T" -> "t"
      [] c = "Q" -> "q" [] c = "U" -> "u" [] c = "H" -> "h" [] c = "S" -> "s"
      [] OTHER -> c

\* str.lower().
Lower(s) == [k \in 1..Len(s) |-> LowerChar(s[k])]

\* sep.join(parts).
RECURSIVE Join(_, _)
Join(sep, parts) ==
    IF parts = <<>> THEN <<>>
    ELSE IF Len(parts) = 1 THEN parts[1]
    ELSE parts[1] \o sep \o Join(sep, Tail(parts))

\* ---------------------------------------------------------- exceptions

\* The classes that derive from Exception. KeyboardInterrupt derives from
\* BaseException only.
ExceptionClasses ==
    {"Exception", "EOFError", "AttributeError", "DuckDuckGoSearchException",
     "TimeoutError"}

IsException(cls) == cls \in ExceptionClasses

\* ---------------------------------------------------------- Search Adapter

Fields == {"title", "body", "href"}

\* A result the backend returns: a dict with any of the three fields, or
\* something that is no dict and has no method get.
NotADict == [f \in {"<not a dict>"} |-> ""]

IsDict(x) == DOMAIN x \subseteq Fields

FieldValue(f) == CASE f = "title" -> "T" [] f = "body" -> "B" [] OTHER -> "U"

Dicts == {[f \in D |-> FieldValue(f)] : D \in SUBSET Fields}

Items == Dicts \cup {NotADict}

\* dict.get(key, default).
Get(d, key, default) == IF key \in DOMAIN d THEN d[key] ELSE default

\* enumerate(results, 1): the first index.
EnumerateStart == 1

FormatEntryFromZero(i, result) ==
    Str(i - 1) \o <<". ", Get(result, "title", "No title"), "\n",
                    "   ", Get(result, "body", "No description"), "\n",
                    "   URL: ", Get(result, "href", "No URL")>>

\* The f-string of one entry.
FormatEntry(i, result) ==
    Str(i) \o <<". ", Get(result, "title", "No title"), "\n",
                "   ", Get(result, "body", "No description"), "\n",
                "   URL: ", Get(result, "href", "No URL")>>

\* What the backend does with one request: it returns a list, or it raises.
BackendOutcomes ==
    [kind : {"results"},
     items : UNION {[1..n -> Items] : n \in 0..MaxBackendLen},
     cls : {"NoExc"}, msg : {""}]
    \cup
    [kind : {"raise"}, items : {<<>>},
     cls : {"DuckDuckGoSearchException", "TimeoutError"}, msg : {"down"}]

NeverEmpty(results) == FALSE

\* not results, for a list.
IsEmpty(results) == results = <<>>

\* The body of the try block: the returned string, or the exception raised.
SearchBody(query, max_results, backend) ==
    IF backend.kind = "raise"
    THEN [raised |-> TRUE, cls |-> backend.cls, msg |-> backend.msg, value |-> <<>>]
    ELSE LET results == backend.items IN
         IF IsEmpty(results)
         THEN [raised |-> FALSE, cls |-> "NoExc", msg |-> "",
               value |-> <<"No search results found.">>]
         ELSE IF \E k \in 1..Len(results) : ~IsDict(results[k])
         THEN [raised |-> TRUE, cls |-> "AttributeError",
               msg |-> "object has no attribute 'get'", value |-> <<>>]
         ELSE [raised |-> FALSE, cls |-> "NoExc", msg |-> "",
               value |-> Join(<<"\n", "\n">>,
                              [k \in 1..Len(results) |->
                                  FormatEntry(EnumerateStart + k - 1, results[k])])]

SearchCatchesProviderErrorsOnly(cls) == cls = "DuckDuckGoSearchException"

\* The except clause of web_search_execute: except Exception.
SearchCatches(cls) == IsException(cls)

\* web_search_execute(query, max_results): what the caller gets.
web_search_execute(query, max_results, backend) ==
    LET r == SearchBody(query, max_results, backend) IN
    IF r.raised /\ SearchCatches(r.cls)
    THEN [raised |-> FALSE, cls |-> "NoExc", msg |-> "",
          value |-> <<"Error performing web search: ", r.msg>>]
    ELSE r

NoSearch ==
    [query |-> "", max_results |-> 0,
     backend |-> [kind |-> "none", items |-> <<>>, cls |-> "NoExc", msg |-> ""],
     ret |-> [raised |-> FALSE, cls |-> "NoExc", msg |-> "", value |-> <<>>]]

\* ------------------------------------------------------------ environment

\* load_dotenv(): the file's variables are added; a variable already set keeps
\* its value.
load_dotenv(env, file) ==
    [n \in DOMAIN env \cup DOMAIN file |->
        IF n \in DOMAIN env THEN env[n] ELSE file[n]]

getenvDefaultEmpty(env, name) == IF name \in DOMAIN env THEN env[name] ELSE ""

\* os.getenv(name).
getenv(env, name) == IF name \in DOMAIN env THEN env[name] ELSE None

\* api_key is None.
MissingKey(key) == key = None

NoVars == [n \in {} |-> ""]

KeyVars == [n \in {"INCEPTION_API_KEY"} |-> "sk-1"]

\* ------------------------------------------------------------- Agent Loop

InputLines ==
    { <<>>, <<" ">>, <<"\t", " ">>,
      <<"e", "x", "i", "t">>, <<"E", "X", "I", "T">>, <<" ", "E", "x", "i", "t", " ">>,
      <<"q", "u", "i", "t">>, <<"Q", "u", "i", "t">>, <<"q", "u", "i", "t", "\t">>,
      <<"e", "x", "i", "t", "s">>, <<"e", " ", "x", "i", "t">>,
      <<" ", "h", "i", " ">>, <<"H", "i">> }

\* What generate_text and input() can raise.
KeyboardInterrupt == [cls |-> "KeyboardInterrupt", msg |-> ""]

EOFError == [cls |-> "EOFError", msg |-> "EOF when reading a line"]

GenerateErrors == {[cls |-> "Exception", msg |-> "boom"], KeyboardInterrupt}

AnswerTexts == {"Paris"}

\* time.time() - start_time, in hundredths of a second.
ElapsedValues == {42}

\* The format .2f of a duration given in hundredths of a second.
Fmt2f(cs) == Str(cs \div 100) \o <<".", Digit((cs % 100) \div 10), Digit(cs % 10)>>

\* print(s): one write, ended by a line break.
print(s) == s \o <<"\n">>

Prompt == <<"Your question: ">>

Welcome ==
    << print(<<"Welcome! Ask me questions (type 'exit' or 'quit' to stop).", "\n">>),
       print(<<"I can search the web for current information to answer your questions.",
               "\n">>) >>

Farewell == print(<<"Goodbye!">>)

InterruptFarewell == print(<<"\n", "\n", "Goodbye!">>)

ErrorLine(e) == print(<<"\n", "Error: ", e.msg, "\n">>)

NoErrorLine(e) == <<>>

\* The body of the clause except Exception: what it prints.
PrintError(e) == <<ErrorLine(e)>>

PrintAnswer(text, elapsed) ==
    << print(<<"\n", "Answer: ", text>>),
       print(<<"(Response time: ">> \o Fmt2f(elapsed) \o <<"s)", "\n">>) >>

\* The number of prompts shown so far.
NPrompts(out) == Cardinality({k \in 1..Len(out) : out[k] = Prompt})

\* question.lower() in ['exit', 'quit', ''].
IsTerminationTrigger(q) ==
    Lower(q) \in {<<"e", "x", "i", "t">>, <<"q", "u", "i", "t">>, <<>>}

GenerateArgsRawLine(l, q) ==
    [prompt |-> l, tools |-> <<"web_search">>, max_tokens |-> MaxTokens]

\* The arguments of the generate_text call, for the line l read and its
\* trimmed form q.
GenerateArgs(l, q) ==
    [prompt |-> q, tools |-> <<"web_search">>, max_tokens |-> MaxTokens]

ExceptClauseNoGeneric(cls) ==
    IF cls = "KeyboardInterrupt" THEN "KeyboardInterrupt" ELSE "propagate"

ExceptClauseInterruptAsError(cls) ==
    IF cls = "KeyboardInterrupt" \/ IsException(cls) THEN "Exception" ELSE "propagate"

\* Which except clause of the loop takes an exception of class cls: the first
\* that matches, in the order written.
ExceptClause(cls) ==
    IF cls = "KeyboardInterrupt" THEN "KeyboardInterrupt"
    ELSE IF IsException(cls) THEN "Exception"
    ELSE "propagate"

\* The loop's handling of an exception e raised in the try block, after out
\* was written: where the process goes and what the console shows.
Handle(e, out) ==
    LET c == ExceptClause(e.cls) IN
    IF c = "KeyboardInterrupt"
    THEN [pc |-> "TERMINATED", stdout |-> Append(out, InterruptFarewell)]
    ELSE IF c = "Exception"
    THEN [pc |-> "WAITING_FOR_INPUT", stdout |-> out \o PrintError(e)]
    ELSE [pc |-> "CRASHED", stdout |-> out]

Init ==
    /\ os_environ \in {NoVars, KeyVars}
    /\ dotenv_file \in {NoVars, KeyVars}
    /\ api_key = "unset"
    /\ model = None
    /\ pc = "import"
    /\ line = NoLine
    /\ question = NoLine
    /\ exc = NoExc
    /\ stdout = <<>>
    /\ gen_calls = 0
    /\ pending = NoCall
    /\ search = NoSearch

\* The module body: load_dotenv, the credential check, the tool descriptor.
ModuleInit ==
    /\ pc = "import"
    /\ LET env == load_dotenv(os_environ, dotenv_file)
           key == getenv(env, "INCEPTION_API_KEY")
       IN  /\ os_environ' = env
           /\ api_key' = key
           /\ IF MissingKey(key)
              THEN /\ pc' = "ABORTED"
                   /\ exc' = [cls |-> "Exception",
                               msg |-> "INCEPTION_API_KEY not found in environment variables"]
              ELSE /\ pc' = "main"
                   /\ exc' = NoExc
    /\ UNCHANGED <<dotenv_file, model, line, question, stdout, gen_calls, pending, search>>

\* main() up to the loop.
MainStart ==
    /\ pc = "main"
    /\ os_environ' =
          [n \in DOMAIN os_environ \cup {"OPENAI_API_KEY", "OPENAI_BASE_URL"} |->
              IF n = "OPENAI_API_KEY" THEN api_key
              ELSE IF n = "OPENAI_BASE_URL" THEN "https://api.inceptionlabs.ai/v1"
              ELSE os_environ[n]]
    /\ model' = "mercury"
    /\ stdout' = stdout \o Welcome
    /\ pc' = "WAITING_FOR_INPUT"
    /\ UNCHANGED <<dotenv_file, api_key, line, question, exc, gen_calls, pending, search>>

\* One pass of the loop in which input() returns the line l: the prompt, the
\* trimming, the termination test, and the start of the generate_text call.
ReadLine(l) ==
    /\ pc = "WAITING_FOR_INPUT"
    /\ LET q == Strip(l)
           out == Append(stdout, Prompt)
       IN  /\ IsTerminationTrigger(q) \/ NPrompts(stdout) < MaxTurns
           /\ line' = l
           /\ question' = q
           /\ exc' = NoExc
           /\ IF IsTerminationTrigger(q)
              THEN /\ stdout' = Append(out, Farewell)
                   /\ pc' = "TERMINATED"
                   /\ UNCHANGED <<gen_calls, pending>>
              ELSE /\ stdout' = out
                   /\ gen_calls' = gen_calls + 1
                   /\ pending' = GenerateArgs(l, q)
                   /\ pc' = "PROCESSING"
    /\ UNCHANGED <<os_environ, dotenv_file, api_key, model, search>>

\* One pass of the loop in which input() raises e.
InputRaises(e) ==
    /\ pc = "WAITING_FOR_INPUT"
    /\ e.cls = "KeyboardInterrupt" \/ NPrompts(stdout) < MaxTurns
    /\ LET h == Handle(e, Append(stdout, Prompt))
       IN  /\ pc' = h.pc
           /\ stdout' = h.stdout
    /\ exc' = e
    /\ UNCHANGED <<os_environ, dotenv_file, api_key, model, line, question,
                   gen_calls, pending, search>>

\* The model runtime calls the tool while generate_text is in progress, and
\* web_search_execute runs to its end.
ToolCall(query, max_results, backend) ==
    /\ pc = "PROCESSING"
    /\ search = NoSearch
    /\ LET ret == web_search_execute(query, max_results, backend)
           call == [query |-> query, max_results |-> max_results,
                    backend |-> backend, ret |-> ret]
       IN  IF ret.raised
           THEN LET e == [cls |-> ret.cls, msg |-> ret.msg]
                    h == Handle(e, stdout)
                IN  /\ pc' = h.pc
                    /\ stdout' = h.stdout
                    /\ exc' = e
                    /\ search' = call
                    /\ pending' = NoCall
           ELSE /\ search' = call
                /\ UNCHANGED <<pc, stdout, exc, pending>>
    /\ UNCHANGED <<os_environ, dotenv_file, api_key, model, line, question, gen_calls>>

\* The string web_search_execute returned goes back to the model runtime.
ToolReturn ==
    /\ pc = "PROCESSING"
    /\ search # NoSearch
    /\ search' = NoSearch
    /\ UNCHANGED <<os_environ, dotenv_file, api_key, model, pc, line, question, exc,
                   stdout, gen_calls, pending>>

\* generate_text returns: the answer and the response time are printed.
GenerateReturns(text, elapsed) ==
    /\ pc = "PROCESSING"
    /\ search = NoSearch
    /\ stdout' = stdout \o PrintAnswer(text, elapsed)
    /\ pc' = "WAITING_FOR_INPUT"
    /\ pending' = NoCall
    /\ UNCHANGED <<os_environ, dotenv_file, api_key, model, line, question, exc,
                   gen_calls, search>>

\* generate_text raises e.
GenerateRaises(e) ==
    /\ pc = "PROCESSING"
    /\ search = NoSearch
    /\ LET h == Handle(e, stdout)
       IN  /\ pc' = h.pc
           /\ stdout' = h.stdout
    /\ exc' = e
    /\ pending' = NoCall
    /\ UNCHANGED <<os_environ, dotenv_file, api_key, model, line, question,
                   gen_calls, search>>

\* The arguments the model runtime may give the tool.
Queries == {"capital of France"}

MaxResultsArgs == {1, DefaultMaxResults}

Next ==
    \/ ModuleInit
    \/ MainStart
    \/ \E l \in InputLines : ReadLine(l)
    \/ \E e \in {KeyboardInterrupt, EOFError} : InputRaises(e)
    \/ \E q \in Queries, m \in MaxResultsArgs, b \in BackendOutcomes : ToolCall(q, m, b)
    \/ ToolReturn
    \/ \E t \in AnswerTexts, d \in ElapsedValues : GenerateReturns(t, d)
    \/ \E e \in GenerateErrors : GenerateRaises(e)

Spec == Init /\ [][Next]_vars

\* ------------------------------------------------- vocabulary of the claims

Whitespace(c) == c \in {" ", "\t", "\n", "\r"}

UpperOf(c) ==
    CASE c = "e" -> "E" [] c = "x" -> "X" [] c = "i" -> "I" [] c = "t" -> "T"
      [] c = "q" -> "Q" [] c = "u" -> "U"
      [] OTHER -> c

\* p is the word w (given in lower case) in some letter case.
EqualsIgnoringCase(p, w) ==
    /\ Len(p) = Len(w)
    /\ \A k \in 1..Len(w) : p[k] \in {w[k], UpperOf(w[k])}

\* p is the line l without its surrounding whitespace.
TrimmedForm(l, p) ==
    \E i \in 0..Len(l), j \in 0..Len(l) :
        /\ i + j <= Len(l)
        /\ \A k \in 1..i : Whitespace(l[k])
        /\ \A k \in (Len(l) - j + 1)..Len(l) : Whitespace(l[k])
        /\ p = SubSeq(l, i + 1, Len(l) - j)
        /\ p = <<>> \/ (~Whitespace(p[1]) /\ ~Whitespace(p[Len(p)]))

\* The line l, trimmed, is empty, "exit" or "quit" in any letter case.
TerminationLine(l) ==
    \E i \in 0..Len(l), j \in 0..Len(l) :
        /\ i + j <= Len(l)
        /\ LET p == SubSeq(l, i + 1, Len(l) - j)
           IN  /\ TrimmedForm(l, p)
               /\ \/ p = <<>>
                  \/ EqualsIgnoringCase(p, <<"e", "x", "i", "t">>)
                  \/ EqualsIgnoringCase(p, <<"q", "u", "i", "t">>)

\* This step is a pass of the loop in which input() returned a line.
LineRead ==
    /\ pc = "WAITING_FOR_INPUT"
    /\ Len(stdout') > Len(stdout)
    /\ exc' = NoExc

\* This step is a pass of the loop in which input() was interrupted.
InterruptedAtInput ==
    /\ pc = "WAITING_FOR_INPUT"
    /\ Len(stdout') > Len(stdout)
    /\ exc'.cls = "KeyboardInterrupt"

Last(s) == s[Len(s)]

IsFarewellWrite(w) == w \in {<<"Goodbye!", "\n">>, <<"\n", "\n", "Goodbye!", "\n">>}

IsErrorWrite(w, msg) == w = <<"\n", "Error: ", msg, "\n", "\n">>

IsAnswerWrite(w) == Len(w) = 4 /\ w[1] = "\n" /\ w[2] = "Answer: " /\ w[4] = "\n"

IsTimeWrite(w) == Len(w) >= 3 /\ w[1] = "(Response time: " /\ w[Len(w) - 2] = "s)"

IsPromptWrite(w) == w = <<"Your question: ">>

\* The text s cut at its line breaks.
RECURSIVE SplitLines(_)
SplitLines(s) ==
    IF \A k \in 1..Len(s) : s[k] # "\n" THEN <<s>>
    ELSE LET n == CHOOSE k \in 1..Len(s) :
                      s[k] = "\n" /\ \A m \in 1..(k - 1) : s[m] # "\n"
         IN  <<SubSeq(s, 1, n - 1)>> \o SplitLines(SubSeq(s, n + 1, Len(s)))

Numeral(k) == <<"1", "2", "3", "4", "5", "6", "7", "8", "9">>[k]

FieldOr(d, f, placeholder) == IF f \in DOMAIN d THEN d[f] ELSE placeholder

\* The report holds an entry numbered k on the line n.
IsEntryHead(l) == Len(l) >= 2 /\ l[1] \in {Numeral(k) : k \in 1..9} /\ l[2] = ". "

NumEntries(report) ==
    LET ls == SplitLines(report)
    IN  Cardinality({n \in 1..Len(ls) : IsEntryHead(ls[n])})

SearchDone == search # NoSearch

BackendFailed ==
    \/ search.backend.kind = "raise"
    \/ \E k \in 1..Len(search.backend.items) :
           ~(DOMAIN search.backend.items[k] \subseteq {"title", "body", "href"})

BackendReturnedRecords ==
    /\ search.backend.kind = "results"
    /\ \A k \in 1..Len(search.backend.items) :
           DOMAIN search.backend.items[k] \subseteq {"title", "body", "href"}

\* ------------------------------------------------------------------ claims

\* C1: from WAITING_FOR_INPUT the loop moves to TERMINATED exactly when the
\* line read, trimmed, is empty or is "exit" or "quit" in any letter case, or
\* when input() is interrupted; a farewell is then printed and generate_text
\* is not called; every other line moves the loop to PROCESSING.
C1_TerminationTriggers ==
    [][ pc = "WAITING_FOR_INPUT" =>
          /\ pc' = "TERMINATED" <=>
                (InterruptedAtInput \/ (LineRead /\ TerminationLine(line')))
          /\ pc' = "TERMINATED" =>
                /\ IsFarewellWrite(Last(stdout'))
                /\ gen_calls' = gen_calls
                /\ pending' = NoCall
          /\ (LineRead /\ ~TerminationLine(line')) =>
                /\ pc' = "PROCESSING"
                /\ gen_calls' = gen_calls + 1 ]_vars

C1_Witness ==
    /\ pc = "TERMINATED"
    /\ line = <<" ", "E", "x", "i", "t", " ">>
    /\ exc = NoExc
    /\ IsFarewellWrite(Last(stdout))

\* C2: when generate_text raises an error the loop prints "Error: <message>",
\* does not terminate and waits for input again, and the next question can
\* still be read.
C2_ErrorTurnContinues ==
    /\ [][ (pc = "PROCESSING" /\ exc'.cls \in ExceptionClasses) =>
              /\ pc' = "WAITING_FOR_INPUT"
              /\ Len(stdout') = Len(stdout) + 1
              /\ IsErrorWrite(Last(stdout'), exc'.msg) ]_vars
    /\ [](pc \notin {"CRASHED"})
    /\ []((pc = "WAITING_FOR_INPUT" /\ NPrompts(stdout) < MaxTurns) =>
             ENABLED ReadLine(<<"H", "i">>))

C2_Witness ==
    /\ pc = "WAITING_FOR_INPUT"
    /\ \E k \in 1..(Len(stdout) - 3) :
          /\ IsErrorWrite(stdout[k], "boom")
          /\ IsPromptWrite(stdout[k + 1])
          /\ IsAnswerWrite(stdout[k + 2])
          /\ IsTimeWrite(stdout[k + 3])

\* C3: whenever the search backend fails, web_search_execute returns a
\* string that begins with "Error performing web search: " and no exception
\* reaches the caller.
C3_SearchNeverRaises ==
    (SearchDone /\ BackendFailed) =>
        /\ ~search.ret.raised
        /\ Len(search.ret.value) >= 1
        /\ search.ret.value[1] = "Error performing web search: "
        /\ pc = "PROCESSING"
        /\ exc = NoExc

C3_Witness ==
    /\ SearchDone
    /\ search.backend.kind = "raise"
    /\ search.backend.cls = "TimeoutError"
    /\ search.ret.value = <<"Error performing web search: ", "down">>

\* C4: when INCEPTION_API_KEY is absent the process aborts before the loop:
\* nothing is printed, no model is configured, and no generate or search
\* call is made.
C4_MissingKeyAborts ==
    (pc # "import" /\ "INCEPTION_API_KEY" \notin DOMAIN os_environ) =>
        /\ pc = "ABORTED"
        /\ stdout = <<>>
        /\ model = None
        /\ gen_calls = 0
        /\ pending = NoCall
        /\ search = NoSearch

C4_Witness ==
    /\ pc = "ABORTED"
    /\ "INCEPTION_API_KEY" \notin DOMAIN os_environ
    /\ exc.cls = "Exception"

\* C5: for N >= 1 results the report has exactly N entries numbered 1..N in
\* the backend's order, each of three lines (number and title, snippet,
\* "URL: " line), consecutive entries separated by one blank line, a missing
\* field replaced by its placeholder.
C5_ReportFormat ==
    (SearchDone /\ BackendReturnedRecords /\ Len(search.backend.items) >= 1) =>
        LET items == search.backend.items
            N == Len(items)
            ls == SplitLines(search.ret.value)
        IN  /\ ~search.ret.raised
            /\ Len(ls) = 4 * N - 1
            /\ \A k \in 1..N :
                  /\ ls[4 * k - 3] =
                        <<Numeral(k), ". ", FieldOr(items[k], "title", "No title")>>
                  /\ ls[4 * k - 2] =
                        <<"   ", FieldOr(items[k], "body", "No description")>>
                  /\ ls[4 * k - 1] =
                        <<"   URL: ", FieldOr(items[k], "href", "No URL")>>
                  /\ k < N => ls[4 * k] = <<>>

C5_Witness ==
    /\ SearchDone
    /\ BackendReturnedRecords
    /\ Len(search.backend.items) = 2
    /\ DOMAIN search.backend.items[1] = {"body"}
    /\ DOMAIN search.backend.items[2] = {"title", "body", "href"}
    /\ search.ret.value =
          <<"1", ". ", "No title", "\n", "   ", "B", "\n", "   URL: ", "No URL",
            "\n", "\n",
            "2", ". ", "T", "\n", "   ", "B", "\n", "   URL: ", "U">>

\* C6: when the backend yields zero results the adapter returns exactly
\* "No search results found.".
C6_NoResults ==
    (SearchDone /\ search.backend.kind = "results" /\ search.backend.items = <<>>) =>
        /\ ~search.ret.raised
        /\ search.ret.value = <<"No search results found.">>

C6_Witness ==
    /\ SearchDone
    /\ search.backend.kind = "results"
    /\ search.backend.items = <<>>
    /\ search.query = "capital of France"

\* C7, as stated: every turn that enters PROCESSING ends with an answer and
\* its response-time line, or with an "Error: <message>" line.
C7_Original ==
    [][ (pc = "PROCESSING" /\ pc' # "PROCESSING") =>
          \/ /\ Len(stdout') = Len(stdout) + 2
             /\ IsAnswerWrite(stdout'[Len(stdout') - 1])
             /\ IsTimeWrite(Last(stdout'))
          \/ /\ Len(stdout') = Len(stdout) + 1
             /\ IsErrorWrite(Last(stdout'), exc'.msg) ]_vars

\* C7, amended: every turn that enters PROCESSING ends with an answer and its
\* response-time line or with an "Error: <message>" line, and the loop waits
\* for input again, or, when the turn is interrupted, with the farewell and
\* termination; no turn ends silently or with an exception leaving the loop.
C7_TurnEndsVisibly ==
    /\ [][ (pc = "PROCESSING" /\ pc' # "PROCESSING") =>
              \/ /\ pc' = "WAITING_FOR_INPUT"
                 /\ Len(stdout') = Len(stdout) + 2
                 /\ IsAnswerWrite(stdout'[Len(stdout') - 1])
                 /\ IsTimeWrite(Last(stdout'))
              \/ /\ pc' = "WAITING_FOR_INPUT"
                 /\ Len(stdout') = Len(stdout) + 1
                 /\ IsErrorWrite(Last(stdout'), exc'.msg)
              \/ /\ pc' = "TERMINATED"
                 /\ exc'.cls = "KeyboardInterrupt"
                 /\ Len(stdout') = Len(stdout) + 1
                 /\ IsFarewellWrite(Last(stdout')) ]_vars
    /\ [](pc # "CRASHED")
    /\ [](\A k \in 2..Len(stdout) :
             (IsPromptWrite(stdout[k]) /\ \E m \in 1..(k - 1) : IsPromptWrite(stdout[m])) =>
                 \/ \E msg \in {"boom", "EOF when reading a line"} :
                        IsErrorWrite(stdout[k - 1], msg)
                 \/ IsTimeWrite(stdout[k - 1]) /\ IsAnswerWrite(stdout[k - 2]))

C7_Witness ==
    /\ pc = "WAITING_FOR_INPUT"
    /\ gen_calls = 2
    /\ IsErrorWrite(Last(stdout), "boom")
    /\ \E k \in 1..Len(stdout) : IsAnswerWrite(stdout[k])

\* C8, as stated: an interrupt that arrives during PROCESSING ends the turn
\* with an error message and returns the loop to WAITING_FOR_INPUT.
C8_Original ==
    [][ (pc = "PROCESSING" /\ exc'.cls = "KeyboardInterrupt") =>
          /\ pc' = "WAITING_FOR_INPUT"
          /\ IsErrorWrite(Last(stdout'), exc'.msg) ]_vars

\* C8, amended: an interrupt is a termination trigger at the input read and
\* during PROCESSING alike: in both places the farewell is printed, no error
\* line is printed, and the loop moves to TERMINATED.
C8_InterruptTerminates ==
    [][ (pc \in {"WAITING_FOR_INPUT", "PROCESSING"} /\ exc' # exc
            /\ exc'.cls = "KeyboardInterrupt") =>
          /\ pc' = "TERMINATED"
          /\ Last(stdout') = <<"\n", "\n", "Goodbye!", "\n">>
          /\ \A k \in (Len(stdout) + 1)..Len(stdout') :
                ~(Len(stdout'[k]) >= 2 /\ stdout'[k][2] = "Error: ") ]_vars

C8_Witness ==
    /\ pc = "TERMINATED"
    /\ exc.cls = "KeyboardInterrupt"
    /\ gen_calls >= 1
    /\ gen_calls = NPrompts(stdout)

\* C9: the report never holds more than max_results entries, whatever the
\* backend returns.
C9_AtMostMaxResults ==
    (SearchDone /\ search.max_results >= 1) =>
        NumEntries(search.ret.value) <= search.max_results

\* C10: every non-terminating line starts exactly one generate_text call,
\* with the trimmed line as prompt, the web_search tool alone and 1000
\* tokens; while the call is pending no line is read and no second call is
\* started, and web_search_execute runs only inside a pending call.
C10_OneBlockingCall ==
    /\ [][ /\ (LineRead /\ ~TerminationLine(line')) =>
                /\ pc' = "PROCESSING"
                /\ gen_calls' = gen_calls + 1
                /\ TrimmedForm(line', pending'.prompt)
                /\ pending'.tools = <<"web_search">>
                /\ pending'.max_tokens = 1000
           /\ gen_calls' # gen_calls =>
                (LineRead /\ ~TerminationLine(line') /\ gen_calls' = gen_calls + 1)
           /\ pc = "PROCESSING" =>
                /\ line' = line
                /\ question' = question
                /\ NPrompts(stdout') = NPrompts(stdout)
                /\ gen_calls' = gen_calls
                /\ pending' \in {pending, NoCall}
           /\ (search' # search /\ search' # NoSearch) =>
                (pc = "PROCESSING" /\ pending # NoCall) ]_vars
    /\ [](pending # NoCall <=> pc = "PROCESSING")
    /\ [](search # NoSearch => pc = "PROCESSING")

C10_Witness ==
    /\ pc = "PROCESSING"
    /\ line = <<" ", "h", "i", " ">>
    /\ pending = [prompt |-> <<"h", "i">>, tools |-> <<"web_search">>,
                  max_tokens |-> 1000]
    /\ search # NoSearch
    /\ gen_calls = 2

====
